---- MODULE Spec2Model ----
(***************************************************************************)
(* The /mcp-query pipeline of server_withContextManager.js together with   *)
(* the Context Manager of context_manager.js.                              *)
(*                                                                         *)
(* A JavaScript string that the code scans (the query, trigger keywords,   *)
(* topic labels) is a sequence of one-character strings, so that           *)
(* toLowerCase, includes and the next-week regular expression are computed *)
(* character by character.  A long literal that the code only copies (a    *)
(* reference excerpt, the join separator, a segment of the prompt          *)
(* template) is one symbol of such a sequence.  A JavaScript value that    *)
(* can come out of JSON.parse is a record [t, v, elems].                   *)
(***************************************************************************)
EXTENDS Integers, Sequences, FiniteSets, TLC

VARIABLES connectorRules, pc, query, ruleResult, llmResponse, llmConnectors,
          intent, fetched, settled, results, finalPrompt, tools, status, body

vars == <<connectorRules, pc, query, ruleResult, llmResponse, llmConnectors,
          intent, fetched, settled, results, finalPrompt, tools, status, body>>

(* ---------------------------------------------------------------- bounds *)

\* A query is the concatenation of at most MaxFrags fragments.
MaxFrags == 2

\* A JSON array answered by the classifier has at most MaxLlmLen elements.
MaxLlmLen == 2

(* --------------------------------------------------------------- strings *)

UPPER == <<"A","B","C","D","E","F","G","H","I","J","K","L","M",
           "N","O","P","Q","R","S","T","U","V","W","X","Y","Z">>

LOWER == <<"a","b","c","d","e","f","g","h","i","j","k","l","m",
           "n","o","p","q","r","s","t","u","v","w","x","y","z">>

toLowerChar(c) ==
    IF \E i \in 1..26 : UPPER[i] = c
    THEN LOWER[CHOOSE i \in 1..26 : UPPER[i] = c]
    ELSE c

RECURSIVE toLowerCase(_)
\* String.prototype.toLowerCase
toLowerCase(s) ==
    IF s = << >> THEN << >>
    ELSE <<toLowerChar(Head(s))>> \o toLowerCase(Tail(s))

\* String.prototype.includes
includes(text, keyword) ==
    \E i \in 0..(Len(text) - Len(keyword)) :
        SubSeq(text, i + 1, i + Len(keyword)) = keyword

\* The characters matched by \s that the queries use.
Whitespace == {" ", "\t", "\n"}

kw_meeting == <<"m","e","e","t","i","n","g">>
kw_schedule == <<"s","c","h","e","d","u","l","e">>
kw_calendar == <<"c","a","l","e","n","d","a","r">>
kw_free == <<"f","r","e","e">>
kw_busy == <<"b","u","s","y">>
kw_server == <<"s","e","r","v","e","r">>
kw_status == <<"s","t","a","t","u","s">>
kw_deployment == <<"d","e","p","l","o","y","m","e","n","t">>
kw_aws == <<"a","w","s">>
kw_error == <<"e","r","r","o","r">>
kw_uptime == <<"u","p","t","i","m","e">>
kw_note == <<"n","o","t","e">>
kw_decision == <<"d","e","c","i","s","i","o","n">>
kw_project == <<"p","r","o","j","e","c","t">>
kw_document == <<"d","o","c","u","m","e","n","t">>
kw_summary == <<"s","u","m","m","a","r","y">>
kw_pull_request == <<"p","u","l","l"," ","r","e","q","u","e","s","t">>
kw_repo == <<"r","e","p","o">>
kw_commit == <<"c","o","m","m","i","t">>
kw_issue == <<"i","s","s","u","e">>
kw_payment == <<"p","a","y","m","e","n","t">>
kw_invoice == <<"i","n","v","o","i","c","e">>
kw_balance == <<"b","a","l","a","n","c","e">>
kw_transaction == <<"t","r","a","n","s","a","c","t","i","o","n">>
kw_steps == <<"s","t","e","p","s">>
kw_sleep == <<"s","l","e","e","p">>
kw_fitness == <<"f","i","t","n","e","s","s">>
kw_health == <<"h","e","a","l","t","h">>

s_today == <<"t","o","d","a","y">>
s_tomorrow == <<"t","o","m","o","r","r","o","w">>
s_next == <<"n","e","x","t">>
s_week == <<"w","e","e","k">>
s_ML == <<"M","L">>
s_right_now == <<"r","i","g","h","t"," ","n","o","w">>
s_AWS == <<"A","W","S">>
s_Tomorrow == <<"T","o","m","o","r","r","o","w">>
s_next_week == <<"n","e","x","t"," ","w","e","e","k">>
s_nextweek == <<"n","e","x","t","w","e","e","k">>

(* ------------------------------------------------------- connector rules *)

\* The built-in table used when intentRules.json cannot be read.  An object
\* is the sequence of its entries in insertion order (the order of
\* Object.keys).
DefaultRules ==
    << [conn |-> "google_calendar",
        keywords |-> <<kw_meeting, kw_schedule, kw_calendar, kw_free, kw_busy>>],
       [conn |-> "aws_monitor",
        keywords |-> <<kw_server, kw_status, kw_deployment, kw_aws, kw_error,
                       kw_uptime>>],
       [conn |-> "notion_docs",
        keywords |-> <<kw_note, kw_decision, kw_project, kw_document,
                       kw_summary>>],
       [conn |-> "github_repo",
        keywords |-> <<kw_pull_request, kw_repo, kw_commit, kw_issue>>],
       [conn |-> "stripe_finance",
        keywords |-> <<kw_payment, kw_invoice, kw_balance, kw_transaction>>],
       [conn |-> "fitbit_health",
        keywords |-> <<kw_steps, kw_sleep, kw_fitness, kw_health>>] >>

\* A table read from intentRules.json:
\* {"aws_monitor": ["AWS", "deployment"], "github_repo": ["week"]}
LoadedRules ==
    << [conn |-> "aws_monitor", keywords |-> <<s_AWS, kw_deployment>>],
       [conn |-> "github_repo", keywords |-> <<s_week>>] >>

\* What the module-level try/catch can leave in connectorRules.
RuleTables == {DefaultRules, LoadedRules}

(* ------------------------------------------------------ JavaScript values *)

NULL == "null"

UNDEFINED == "undefined"

StrVal(c) == [t |-> "string", v |-> c, elems |-> << >>]

NumVal(n) == [t |-> "number", v |-> n, elems |-> << >>]

NullVal == [t |-> "null", v |-> "null", elems |-> << >>]

ObjVal == [t |-> "object", v |-> "[object Object]", elems |-> << >>]

ArrVal(es) == [t |-> "array", v |-> "", elems |-> es]

\* A JSON string: elems holds its characters, which is what iterating a
\* string yields.
TextVal(name, chars) ==
    [t |-> "string", v |-> name, elems |-> [i \in 1..Len(chars) |-> StrVal(chars[i])]]

\* Whether a value has Symbol.iterator: arrays and strings do; null, numbers
\* and plain objects do not, and spreading them throws a TypeError.
Iterable(val) == val.t \in {"array", "string"}

\* [...val] for an iterable val.
Spread(val) == val.elems

RECURSIVE NewSet(_)
\* [...new Set(seq)]: the first occurrence of each value, in order.
NewSet(seq) ==
    IF seq = << >> THEN << >>
    ELSE LET front == NewSet(SubSeq(seq, 1, Len(seq) - 1))
             last == seq[Len(seq)]
         IN IF \E i \in 1..Len(front) : front[i] = last
            THEN front
            ELSE Append(front, last)

\* ToPropertyKey: the string a value turns into when used as a property name.
ToPropertyKey(val) == val.v

(* ---------------------------------------------------- rule-based analyzer *)

\* connectorRules[conn].some((keyword) => text.includes(keyword))
someKeyword(keywords, text) ==
    \E k \in 1..Len(keywords) : includes(text, keywords[k])

RECURSIVE filterConnectors(_, _)
\* Object.keys(connectorRules).filter(...)
filterConnectors(rules, text) ==
    IF rules = << >> THEN << >>
    ELSE LET rest == filterConnectors(Tail(rules), text)
         IN IF someKeyword(Head(rules).keywords, text)
            THEN <<StrVal(Head(rules).conn)>> \o rest
            ELSE rest

\* /next\s+week/.test(text)
nextWeekRegex(text) ==
    \E i \in 0..Len(text), n \in 1..Len(text) :
        /\ i + 4 + n + 4 <= Len(text)
        /\ SubSeq(text, i + 1, i + 4) = s_next
        /\ \A k \in (i + 5)..(i + 4 + n) : text[k] \in Whitespace
        /\ SubSeq(text, i + 4 + n + 1, i + 4 + n + 4) = s_week

\* extractTimeHint with the first two tests exchanged.
extractTimeHintTomorrowFirst(text) ==
    IF includes(text, s_tomorrow) THEN "tomorrow"
    ELSE IF includes(text, s_today) THEN "today"
    ELSE IF nextWeekRegex(text) THEN "next_week"
    ELSE NULL

extractTimeHint(text) ==
    IF includes(text, s_today) THEN "today"
    ELSE IF includes(text, s_tomorrow) THEN "tomorrow"
    ELSE IF nextWeekRegex(text) THEN "next_week"
    ELSE NULL

\* The return statement, given the filtered connectors and the time hint.
ruleResultOf(connectors, timeHint) ==
    [connectors |-> IF Len(connectors) > 0 THEN connectors
                    ELSE <<StrVal("semantic_search")>>,
     timeHint |-> timeHint]

ruleBasedAnalyzer(rules, q) ==
    LET text == toLowerCase(q)
    IN ruleResultOf(filterConnectors(rules, text), extractTimeHint(text))

(* ----------------------------------------------------- LLM-based analyzer *)

\* What openai.chat.completions.create can do: reject, or resolve with a
\* message whose content is missing, is not JSON, or is the JSON text of a
\* value.
TransportError == [outcome |-> "reject", content |-> "none", value |-> NullVal]

NoContent == [outcome |-> "resolve", content |-> "null", value |-> NullVal]

NotJson == [outcome |-> "resolve", content |-> "text", value |-> NullVal]

Json(val) == [outcome |-> "resolve", content |-> "json", value |-> val]

\* The try block: await create(...), content.trim(), JSON.parse(text),
\* return parsed; the catch block returns [].
llmAnalyzer(resp) ==
    IF resp.outcome = "reject" THEN ArrVal(<< >>)
    ELSE IF resp.content = "null" THEN ArrVal(<< >>)
    ELSE IF resp.content = "text" THEN ArrVal(<< >>)
    ELSE resp.value

(* --------------------------------------------------------- hybrid analyzer *)

combinedConnectors(ruleConnectors, llmList) ==
    NewSet(ruleConnectors \o Spread(llmList))

\* The part of analyzeIntent after the await, given the rule-based result
\* computed before it and the value llmAnalyzer returned.  threw: the
\* spread of a value that is not iterable raises a TypeError, which
\* analyzeIntent does not catch.
analyzeIntent(rule, llmList) ==
    IF ~Iterable(llmList)
    THEN [threw |-> TRUE, connectors |-> << >>, timeHint |-> NULL]
    ELSE [threw |-> FALSE,
          connectors |-> combinedConnectors(rule.connectors, llmList),
          timeHint |-> rule.timeHint]

(* -------------------------------------------------------- connector fetch *)

\* The own keys of the summary table in fetchConnector.
DataKeys == {"google_calendar", "aws_monitor", "notion_docs", "github_repo",
             "stripe_finance", "fitbit_health", "semantic_search"}

\* Property names every object literal inherits from Object.prototype; each
\* holds a function or an object, which is truthy.
ObjectPrototypeKeys == {"constructor", "toString", "toLocaleString", "valueOf",
                        "hasOwnProperty", "isPrototypeOf",
                        "propertyIsEnumerable", "__proto__"}

INHERITED == "[inherited Object.prototype member]"

\* data[connector]
dataLookup(key, timeHint) ==
    CASE key = "google_calendar" ->
            (CASE timeHint = "today" -> "Checked calendar for today meetings."
               [] timeHint = "tomorrow" -> "Checked calendar for tomorrow meetings."
               [] timeHint = "next_week" -> "Checked calendar for next_week meetings."
               [] OTHER -> "Checked calendar for upcoming meetings.")
      [] key = "aws_monitor" -> "Fetched server health metrics from AWS."
      [] key = "notion_docs" -> "Retrieved recent meeting notes and project updates."
      [] key = "github_repo" -> "Fetched latest pull requests and commits."
      [] key = "stripe_finance" -> "Fetched balance and transaction summaries."
      [] key = "fitbit_health" -> "Fetched recent step count and sleep stats."
      [] key = "semantic_search" -> "Performed general semantic search for context."
      [] key \in ObjectPrototypeKeys -> INHERITED
      [] OTHER -> UNDEFINED

fetchConnector(connector, timeHint) ==
    LET found == dataLookup(ToPropertyKey(connector), timeHint)
    IN [connector |-> connector,
        summary |-> IF found # UNDEFINED THEN found ELSE "No data available"]

(* -------------------------------------------------------- context manager *)

s_Continuous_Deployment == <<"C","o","n","t","i","n","u","o","u","s"," ","D","e","p","l","o","y","m","e","n","t">>
s_Machine_Learning == <<"M","a","c","h","i","n","e"," ","L","e","a","r","n","i","n","g">>
s_continuous_deployment == <<"c","o","n","t","i","n","u","o","u","s"," ","d","e","p","l","o","y","m","e","n","t">>
s_machine_learning == <<"m","a","c","h","i","n","e"," ","l","e","a","r","n","i","n","g">>
s_cloud_migration == <<"c","l","o","u","d"," ","m","i","g","r","a","t","i","o","n">>

\* Each excerpt is one symbol, named by its first words.
MOCK_DOC_REPO ==
    << [key |-> s_continuous_deployment,
        excerpts |-> <<"CD is the practice of automatically deploying ...",
                       "A common bottleneck is integration testing ...",
                       "Organizational challenges, specifically lack of trust ...">>],
       [key |-> s_machine_learning,
        excerpts |-> <<"MLOps teams often struggle with model drift ...">>],
       [key |-> s_cloud_migration,
        excerpts |-> <<"Cost optimization and vendor lock-in ...">>] >>

\* The second argument of sourceData.slice(0, 2).
SliceEnd == 2

\* slice taking one element more.
sliceOneMore(arr, end) == SubSeq(arr, 1, IF Len(arr) < end + 1 THEN Len(arr) ELSE end + 1)

\* Array.prototype.slice(0, end)
slice(arr, end) == SubSeq(arr, 1, IF Len(arr) < end THEN Len(arr) ELSE end)

\* The "\n---\n" given to join.
SEPARATOR == "\n---\n"

RECURSIVE join(_, _)
\* Array.prototype.join
join(chunks, sep) ==
    IF chunks = << >> THEN << >>
    ELSE IF Len(chunks) = 1 THEN <<chunks[1]>>
    ELSE <<chunks[1], sep>> \o join(Tail(chunks), sep)

\* MOCK_DOC_REPO[topic.toLowerCase()] followed by the push of its first two
\* excerpts; a key the table lacks gives undefined and pushes nothing.
topicChunks(topic) ==
    LET key == toLowerCase(topic)
    IN IF \E i \in 1..Len(MOCK_DOC_REPO) : MOCK_DOC_REPO[i].key = key
       THEN slice(MOCK_DOC_REPO[CHOOSE i \in 1..Len(MOCK_DOC_REPO) :
                                    MOCK_DOC_REPO[i].key = key].excerpts,
                  SliceEnd)
       ELSE << >>

RECURSIVE relevantChunks(_)
\* The loop over inferredTopics.
relevantChunks(inferredTopics) ==
    IF inferredTopics = << >> THEN << >>
    ELSE topicChunks(Head(inferredTopics)) \o relevantChunks(Tail(inferredTopics))

\* mockRetrieveContext without the recency test.
mockRetrieveContextNoRecency(inferredTopics, initialQuery) ==
    [contextText |-> join(relevantChunks(inferredTopics), SEPARATOR),
     useSearchTool |-> FALSE]

mockRetrieveContext(inferredTopics, initialQuery) ==
    IF includes(initialQuery, s_right_now)
    THEN [contextText |-> join(relevantChunks(inferredTopics), SEPARATOR),
          useSearchTool |-> TRUE]
    ELSE [contextText |-> join(relevantChunks(inferredTopics), SEPARATOR),
          useSearchTool |-> FALSE]

\* STEP 1 of prepareContextualPrompt.
inferTopics(userQuery) ==
    (IF includes(userQuery, kw_deployment) THEN <<s_Continuous_Deployment>> ELSE << >>)
    \o (IF includes(userQuery, s_ML) THEN <<s_Machine_Learning>> ELSE << >>)

\* The three literal segments of the template string of STEP 4.
TEMPLATE_HEAD == "\nYou are a **Pragmatic ... RETRIEVED CONTEXT:\n---\n"

TEMPLATE_MID == "\n---\n\nUSER QUERY:\n"

TEMPLATE_TAIL == "\n\nGenerate your response now.\n    "

\* [{ google_search: {} }]
GOOGLE_SEARCH == "[{ google_search: {} }]"

prepareContextualPrompt(userQuery) ==
    LET inferredTopics == inferTopics(userQuery)
    IN IF Len(inferredTopics) = 0
       THEN [finalPrompt |-> userQuery, tools |-> GOOGLE_SEARCH]
       ELSE LET retrieved == mockRetrieveContext(inferredTopics, userQuery)
            IN [finalPrompt |-> <<TEMPLATE_HEAD>> \o retrieved.contextText
                                \o <<TEMPLATE_MID>> \o userQuery
                                \o <<TEMPLATE_TAIL>>,
                tools |-> IF retrieved.useSearchTool THEN GOOGLE_SEARCH
                          ELSE UNDEFINED]

(* ----------------------------------------------------------------- inputs *)

\* The pieces queries are made of.
Fragments == {s_today, s_Tomorrow, s_next_week, s_nextweek, kw_deployment,
              s_ML, s_right_now, s_AWS, kw_meeting}

RECURSIVE Concats(_)
Concats(n) ==
    IF n = 0 THEN {<< >>}
    ELSE {f \o q : f \in Fragments, q \in Concats(n - 1)}

\* req.body.query: the empty string and every concatenation of fragments.
Queries == UNION {Concats(n) : n \in 0..MaxFrags}

\* The elements of a JSON array the classifier may answer with.
LlmElements == {StrVal("aws_monitor"), StrVal("constructor"), NumVal("7")}

RECURSIVE Arrays(_)
Arrays(n) ==
    IF n = 0 THEN {<< >>}
    ELSE {Append(a, e) : a \in Arrays(n - 1), e \in LlmElements}

LlmResponses ==
    {TransportError, NoContent, NotJson,
     Json(NullVal), Json(ObjVal), Json(TextVal("ok", <<"o","k">>))}
    \cup {Json(ArrVal(a)) : a \in UNION {Arrays(n) : n \in 0..MaxLlmLen}}

(* ------------------------------------------------------------ the request *)

NoRuleResult == [connectors |-> << >>, timeHint |-> NULL]

NoIntent == [threw |-> FALSE, connectors |-> << >>, timeHint |-> NULL]

NoBody == [final_llm_prompt |-> << >>, connectors_analyzed |-> << >>,
           tools_enabled_by_context_manager |-> "None", mcp_sources |-> << >>,
           error |-> ""]

Init ==
    /\ connectorRules \in RuleTables
    /\ pc = "idle"
    /\ query = << >>
    /\ ruleResult = NoRuleResult
    /\ llmResponse = TransportError
    /\ llmConnectors = ArrVal(<< >>)
    /\ intent = NoIntent
    /\ fetched = << >>
    /\ settled = {}
    /\ results = << >>
    /\ finalPrompt = << >>
    /\ tools = UNDEFINED
    /\ status = 0
    /\ body = NoBody

\* POST /mcp-query arrives.  A missing or empty query is answered 400; else
\* analyzeIntent starts, runs ruleBasedAnalyzer and suspends in llmAnalyzer
\* at the await of the classification call.
Receive(q) ==
    /\ pc = "idle"
    /\ query' = q
    /\ IF Len(q) = 0
       THEN /\ pc' = "done"
            /\ status' = 400
            /\ body' = [NoBody EXCEPT !.error = "Missing query text"]
            /\ UNCHANGED ruleResult
       ELSE /\ pc' = "llm"
            /\ ruleResult' = ruleBasedAnalyzer(connectorRules, q)
            /\ UNCHANGED <<status, body>>
    /\ UNCHANGED <<connectorRules, llmResponse, llmConnectors, intent, fetched,
                   settled, results, finalPrompt, tools>>

\* The classification call settles.  llmAnalyzer returns, analyzeIntent
\* merges (or throws, which the route's catch answers with 500), and the
\* route calls fetchConnector for every connector and suspends in
\* Promise.all.
LlmSettle(resp) ==
    /\ pc = "llm"
    /\ llmResponse' = resp
    /\ llmConnectors' = llmAnalyzer(resp)
    /\ \E result \in {analyzeIntent(ruleResult, llmAnalyzer(resp))} :
          /\ intent' = result
          /\ IF result.threw
             THEN /\ pc' = "done"
                  /\ status' = 500
                  /\ body' = [NoBody EXCEPT !.error = "llmConnectors is not iterable"]
                  /\ UNCHANGED fetched
             ELSE /\ pc' = "fetch"
                  /\ fetched' = [i \in 1..Len(result.connectors) |->
                                    fetchConnector(result.connectors[i], result.timeHint)]
                  /\ UNCHANGED <<status, body>>
    /\ UNCHANGED <<connectorRules, query, ruleResult, settled, results,
                   finalPrompt, tools>>

\* One of the promises handed to Promise.all is seen fulfilled.
FetchSettle(i) ==
    /\ pc = "fetch"
    /\ i \in (1..Len(fetched)) \ settled
    /\ settled' = settled \cup {i}
    /\ UNCHANGED <<connectorRules, pc, query, ruleResult, llmResponse, llmConnectors, intent,
                   fetched, results, finalPrompt, tools, status, body>>

\* Fulfilment on the first input promise, as Promise.race or Promise.any do.
anyFulfilled(n, done) == done # {}

\* Promise.all fulfils once every input promise has.
allFulfilled(n, done) == done = 1..n

\* The await of Promise.all resumes with the values in input order.
FanIn ==
    /\ pc = "fetch"
    /\ allFulfilled(Len(fetched), settled)
    /\ results' = [i \in 1..Len(fetched) |-> fetched[i]]
    /\ pc' = "context"
    /\ UNCHANGED <<connectorRules, query, ruleResult, llmResponse, llmConnectors, intent,
                   fetched, settled, finalPrompt, tools, status, body>>

\* prepareContextualPrompt called next to the fetches instead of after the
\* await of Promise.all.
PrepareContextBeforeFanIn ==
    /\ pc \in {"fetch", "context"}
    /\ LET prepared == prepareContextualPrompt(query)
       IN /\ finalPrompt' = prepared.finalPrompt
          /\ tools' = prepared.tools
    /\ pc' = "respond"
    /\ results' = [i \in 1..Len(fetched) |-> fetched[i]]
    /\ UNCHANGED <<connectorRules, query, ruleResult, llmResponse, llmConnectors,
                   intent, fetched, settled, status, body>>

\* Part C: const { finalPrompt, tools } = await prepareContextualPrompt(query)
PrepareContext ==
    /\ pc = "context"
    /\ LET prepared == prepareContextualPrompt(query)
       IN /\ finalPrompt' = prepared.finalPrompt
          /\ tools' = prepared.tools
    /\ pc' = "respond"
    /\ UNCHANGED <<connectorRules, query, ruleResult, llmResponse, llmConnectors, intent,
                   fetched, settled, results, status, body>>

\* Part D and the payload: callLLMApi, then res.json.
Respond ==
    /\ pc = "respond"
    /\ status' = 200
    /\ body' = [final_llm_prompt |-> finalPrompt,
                connectors_analyzed |-> intent.connectors,
                tools_enabled_by_context_manager |->
                    IF tools # UNDEFINED THEN "google_search" ELSE "None",
                mcp_sources |-> results,
                error |-> ""]
    /\ pc' = "done"
    /\ UNCHANGED <<connectorRules, query, ruleResult, llmResponse, llmConnectors, intent,
                   fetched, settled, results, finalPrompt, tools>>

Next ==
    \/ \E q \in Queries : Receive(q)
    \/ \E resp \in LlmResponses : LlmSettle(resp)
    \/ \E i \in 1..Len(fetched) : FetchSettle(i)
    \/ FanIn
    \/ PrepareContext
    \/ Respond

Spec == Init /\ [][Next]_vars

(* ----------------------------------------------------------------- claims *)

\* The connector names of the classifier's system instruction.
Vocabulary == {"google_calendar", "aws_monitor", "notion_docs", "github_repo",
               "stripe_finance", "fitbit_health"}

\* word occurs in q at position i, letter case ignored.
OccursAtCI(q, word, i) ==
    /\ i + Len(word) - 1 <= Len(q)
    /\ \A j \in 1..Len(word) : toLowerChar(q[i + j - 1]) = toLowerChar(word[j])

ContainsCI(q, word) == \E i \in 1..(Len(q) + 1) : OccursAtCI(q, word, i)

\* word occurs in q at position i, verbatim.
OccursAt(q, word, i) ==
    /\ i + Len(word) - 1 <= Len(q)
    /\ \A j \in 1..Len(word) : q[i + j - 1] = word[j]

Contains(q, word) == \E i \in 1..(Len(q) + 1) : OccursAt(q, word, i)

\* "next", then one or more whitespace characters, then "week".
ContainsNextWeek(q) ==
    \E i \in 1..Len(q), j \in 1..Len(q) :
        /\ OccursAtCI(q, s_next, i)
        /\ OccursAtCI(q, s_week, j)
        /\ j > i + 4
        /\ \A k \in (i + 4)..(j - 1) : q[k] \in Whitespace

\* The classification call has settled for a request that had a query.
LlmAnswered == pc \in {"fetch", "context", "respond"} \/ (pc = "done" /\ status # 400)

\* prepareContextualPrompt has returned.
Prepared == pc = "respond" \/ (pc = "done" /\ status = 200)

\* The set of the elements of a sequence.
Range(seq) == {seq[i] : i \in 1..Len(seq)}

\* C1: a request with a non-empty query never ends in the error outcome
\* (HTTP 500), whatever the classification call does: its response carries
\* a non-empty connectors_analyzed list and a rendered final prompt.
C1_NeverError ==
    (pc = "done" /\ Len(query) > 0) =>
        /\ status = 200
        /\ Len(body.connectors_analyzed) > 0
        /\ Len(body.final_llm_prompt) > 0

\* The classifier's answer is a failure, which llmAnalyzer degrades to [].
LlmFailed == llmResponse.outcome = "reject" \/ llmResponse.content # "json"

\* C2: for every query and every classifier outcome, analyzeIntent returns
\* a duplicate-free list holding every rule-based connector and the
\* rule-based time hint; on classifier failure it returns the rule-based
\* result exactly.
C2_HybridSupersetOfRules ==
    LlmAnswered =>
        /\ ~intent.threw
        /\ \A i, j \in 1..Len(intent.connectors) :
               i # j => intent.connectors[i] # intent.connectors[j]
        /\ Range(ruleResult.connectors) \subseteq Range(intent.connectors)
        /\ intent.timeHint = ruleResult.timeHint
        /\ LlmFailed => intent.connectors = ruleResult.connectors

\* The classifier answered as instructed: a JSON array of vocabulary names.
Conforming ==
    /\ llmResponse.outcome = "resolve"
    /\ llmResponse.content = "json"
    /\ llmResponse.value.t = "array"
    /\ \A i \in 1..Len(llmResponse.value.elems) :
           llmResponse.value.elems[i] \in {StrVal(c) : c \in Vocabulary}

\* C3: llmAnalyzer returns the empty list on a transport failure, a parse
\* failure and any response that is not a list of connector identifiers.
C3_NonConformingIsEmpty ==
    (LlmAnswered /\ ~Conforming) => llmConnectors = ArrVal(<< >>)

\* The connectors of the table having a trigger that occurs in q, letter
\* case ignored.
TriggeredConnectors(rules, q) ==
    {StrVal(rules[r].conn) : r \in
        {r \in 1..Len(rules) :
            \E k \in 1..Len(rules[r].keywords) : ContainsCI(q, rules[r].keywords[k])}}

\* C4: the rule-based connector set is exactly the set of connectors with a
\* trigger occurring case-insensitively in the query, or semantic_search
\* alone when that set is empty.
C4_RuleConnectorsExact ==
    pc = "llm" =>
        Range(ruleResult.connectors) =
            IF TriggeredConnectors(connectorRules, query) = {}
            THEN {StrVal("semantic_search")}
            ELSE TriggeredConnectors(connectorRules, query)

\* C5: the time hint is "today" when the query contains "today"; else
\* "tomorrow" when it contains "tomorrow"; else "next_week" when it matches
\* "next", whitespace, "week"; else there is none.
C5_TimeHintPriority ==
    pc = "llm" =>
        /\ ContainsCI(query, s_today) => ruleResult.timeHint = "today"
        /\ (~ContainsCI(query, s_today) /\ ContainsCI(query, s_tomorrow))
               => ruleResult.timeHint = "tomorrow"
        /\ (~ContainsCI(query, s_today) /\ ~ContainsCI(query, s_tomorrow)
                /\ ContainsNextWeek(query))
               => ruleResult.timeHint = "next_week"
        /\ (~ContainsCI(query, s_today) /\ ~ContainsCI(query, s_tomorrow)
                /\ ~ContainsNextWeek(query))
               => ruleResult.timeHint = NULL

\* C5 witness: a query with both "today" and "tomorrow" resolved to "today".
C5_Witness ==
    /\ pc = "llm"
    /\ ContainsCI(query, s_today)
    /\ ContainsCI(query, s_tomorrow)
    /\ ruleResult.timeHint = "today"

\* C6: the fetch stage has no output while a fetch is outstanding, and its
\* output holds exactly one ConnectorContext per connector of the resolved
\* set, none omitted and none twice.
C6_OneContextPerConnector ==
    /\ pc = "fetch" => results = << >>
    /\ (pc \in {"context", "respond"} \/ (pc = "done" /\ status = 200)) =>
           /\ settled = 1..Len(intent.connectors)
           /\ Len(results) = Len(intent.connectors)
           /\ \A c \in Range(intent.connectors) :
                  Cardinality({i \in 1..Len(results) : results[i].connector = c}) = 1
           /\ \A i \in 1..Len(results) :
                  results[i].connector \in Range(intent.connectors)

\* C6 witness: the output assembled for three or more connectors, one of
\* them contributed by the classifier only.
C6_Witness ==
    /\ pc = "context"
    /\ Len(results) >= 3
    /\ Len(ruleResult.connectors) < Len(results)

\* C7: a connector that is not one of the seven keys of the summary table
\* gets the summary "No data available".
C7_UnknownGetsSentinel ==
    \A i \in 1..Len(fetched) :
        ToPropertyKey(fetched[i].connector) \notin DataKeys
            => fetched[i].summary = "No data available"

\* C8: tools is the live-search descriptor if and only if no topic was
\* inferred or the query contains "right now"; otherwise it is undefined.
C8_ToolsIffNoTopicOrRecency ==
    Prepared =>
        /\ tools \in {GOOGLE_SEARCH, UNDEFINED}
        /\ tools = GOOGLE_SEARCH <=>
               \/ ~(Contains(query, kw_deployment) \/ Contains(query, s_ML))
               \/ Contains(query, s_right_now)

\* C8 witness: a recency cue with a topic inferred, and the descriptor set.
C8_Witness ==
    /\ Prepared
    /\ Contains(query, kw_deployment)
    /\ Contains(query, s_right_now)
    /\ tools = GOOGLE_SEARCH

\* The context of a query: the first two excerpts on continuous deployment
\* when "deployment" occurs, then the excerpt on machine learning when "ML"
\* occurs, separated by "\n---\n".
ExpectedContext(q) ==
    LET cd == MOCK_DOC_REPO[1].excerpts
        ml == MOCK_DOC_REPO[2].excerpts
    IN CASE Contains(q, kw_deployment) /\ Contains(q, s_ML)
               -> <<cd[1], "\n---\n", cd[2], "\n---\n", ml[1]>>
         [] Contains(q, kw_deployment) /\ ~Contains(q, s_ML)
               -> <<cd[1], "\n---\n", cd[2]>>
         [] OTHER -> <<ml[1]>>

\* C9: with no topic inferred finalPrompt is the query unchanged; otherwise
\* it is the template with the context (at most the first two excerpts of
\* each topic, in topic order, joined by the separator) and the query.
C9_FinalPromptShape ==
    Prepared =>
        IF ~(Contains(query, kw_deployment) \/ Contains(query, s_ML))
        THEN finalPrompt = query
        ELSE finalPrompt = <<TEMPLATE_HEAD>> \o ExpectedContext(query)
                           \o <<TEMPLATE_MID>> \o query \o <<TEMPLATE_TAIL>>

\* C9 witness: both topics inferred and the template rendered around the
\* three excerpts.
C9_Witness ==
    /\ Prepared
    /\ Contains(query, kw_deployment)
    /\ Contains(query, s_ML)
    /\ Len(finalPrompt) = Len(query) + 8

\* C10: every connector the classifier stage returns, and every connector
\* of the IntentResult, is in the vocabulary or is semantic_search.
C10_ConnectorsInVocabulary ==
    LlmAnswered =>
        /\ Range(llmConnectors.elems) \subseteq {StrVal(c) : c \in Vocabulary}
        /\ Range(intent.connectors) \subseteq
               {StrVal(c) : c \in Vocabulary \cup {"semantic_search"}}

\* C11 as stated: while per-connector fetches are outstanding,
\* prepareContextualPrompt can start, without waiting for the fan-in.
C11_ContextStartsDuringFetch ==
    (pc = "fetch" /\ settled # 1..Len(fetched)) => ENABLED PrepareContext

\* C11 as the code has it: prepareContextualPrompt runs after the fan-in.
\* While the classification call or a fetch is awaited it has produced
\* nothing, and once it has produced its prompt every fetch had completed
\* and the fetch stage's output was assembled.
C11_ContextAfterFanIn ==
    /\ pc \in {"llm", "fetch", "context"} =>
           (finalPrompt = << >> /\ tools = UNDEFINED)
    /\ Prepared =>
           /\ Len(finalPrompt) > 0
           /\ settled = 1..Len(fetched)
           /\ Len(results) = Len(fetched)
           /\ Len(results) > 0

\* C11 witness: the prompt prepared for a request whose two or more fetches
\* have all completed, before the response is sent.
C11_Witness ==
    /\ pc = "respond"
    /\ Len(fetched) >= 2
    /\ settled = 1..Len(fetched)
    /\ Len(results) = Len(fetched)
    /\ Len(finalPrompt) > 0

====
